---------------------------- MODULE Spec2Model ----------------------------
(***************************************************************************)
(* Model of the BottomSheet widget (src/src/components/BottomSheet.jsx):   *)
(* the gesture tracker, the velocity estimator, the snap-point selector    *)
(* and the spring transition animator, as one state machine.               *)
(*                                                                         *)
(* Every handler is one action.  A handler runs against the state of the   *)
(* latest render (React re-renders after each event), so the action reads  *)
(* the current values of the state variables; the frame callback `animate` *)
(* is a closure and reads what it captured when the transition was         *)
(* requested (start time, duration, target, spring configuration).         *)
(*                                                                         *)
(* Numbers that are floating point in the source are fixed point here,     *)
(* scaled by Scale: 0.35 is 3500, the height 50 (of '50%') is 500000.      *)
(***************************************************************************)
EXTENDS Integers, Sequences, FiniteSets, TLC

(***************************************************************************)
(* Bounds of the model.                                                    *)
(***************************************************************************)
\* The clock (performance.now()) advances in ticks; no event is accepted
\* after EventTicks ticks, and the clock stops AnimTicks ticks later, which is
\* long enough for a transition requested at the last moment to finish.
EventTicks == 2
\* Samples taken in one gesture session (handleTouchMove calls).
MaxMoves == 2
\* Calls of the onClose callback that are counted.
MaxCloseCalls == 1
\* Samples observed by the velocity estimator between two resets.
MaxObserved == 6

TickMs == 300 * 1
AnimTicks == 2 * 1
MaxTicks == EventTicks + AnimTicks

(***************************************************************************)
(* Fixed-point arithmetic.                                                 *)
(***************************************************************************)
Scale == 10 * 1000
Terms == 4 * 2

Abs(x) == IF x < 0 THEN -x ELSE x
Min(a, b) == IF a < b THEN a ELSE b

FMul(a, b) == (a * b) \div Scale
FDiv(a, b) == (a * Scale) \div b

\* the element of a one-element set; {F(v) : v \in {e}} computes e once, however
\* often F uses v
Only(S) == CHOOSE v \in S : TRUE

\* x * x <= n, without computing x * x
SquareAtMost(x, n) == x = 0 \/ x <= n \div x

\* the integer square root of n < 2^31, a bit at a time from SqrtTopBit down;
\* root is the root found so far
SqrtTopBit == 2 ^ 15
RECURSIVE SqrtBits(_, _, _)
SqrtBits(n, root, bit) ==
    IF bit = 0 THEN root
    ELSE Only({SqrtBits(n, next, bit \div 2) :
                 next \in {IF SquareAtMost(root + bit, n) THEN root + bit ELSE root}})
ISqrt(n) == SqrtBits(n, 0, SqrtTopBit)

\* Math.sqrt on a fixed-point number
FSqrt(a) == IF a <= 0 THEN 0 ELSE Only({ISqrt(n) : n \in {a * Scale}})

\* the Taylor series, Terms terms; each term is computed once from the one before
RECURSIVE ExpSum(_, _, _)
ExpSum(x, term, k) ==
    IF k > Terms THEN 0
    ELSE term + Only({ExpSum(x, next, k + 1) : next \in {FMul(term, x) \div k}})

\* Math.exp
FExp(x) == Only({ExpSum(xv, Scale, 1) : xv \in {x}})

RECURSIVE TrigSum(_, _, _, _)
TrigSum(x2, term, n, sgn) ==
    IF n > 2 * Terms THEN 0
    ELSE term + Only({TrigSum(x2, next, n + 2, sgn) :
                        next \in {sgn * (FMul(term, x2) \div (n * (n + 1)))}})

\* Math.cos, Math.sin, Math.cosh, Math.sinh
FCos(x) == Only({TrigSum(FMul(xv, xv), Scale, 1, -1) : xv \in {x}})
FSin(x) == Only({TrigSum(FMul(xv, xv), xv, 2, -1) : xv \in {x}})
FCosh(x) == Only({TrigSum(FMul(xv, xv), Scale, 1, 1) : xv \in {x}})
FSinh(x) == Only({TrigSum(FMul(xv, xv), xv, 2, 1) : xv \in {x}})

\* The value of 0/0 * 0 and of Infinity * 0 in the source's arithmetic.
NaN == "NaN"

(***************************************************************************)
(* Snap points and props.                                                  *)
(***************************************************************************)
\* const snapPointOrder = ['closed', 'half-open', 'fully-open'] (the literal
\* the selector and the arrow keys use)
snapPointOrder == <<"closed", "half-open", "fully-open">>

\* Array.prototype.indexOf, 0-based, -1 when absent
IndexOf(seq, x) ==
    IF \E i \in 1..Len(seq) : seq[i] = x
    THEN (CHOOSE i \in 1..Len(seq) : seq[i] = x /\ \A j \in 1..(i - 1) : seq[j] # x) - 1
    ELSE -1

\* seq[i] with a 0-based index
At(seq, i) == IF i >= 0 /\ i < Len(seq) THEN seq[i + 1] ELSE "undefined"

Range(seq) == {seq[i] : i \in 1..Len(seq)}

\* The props a widget is constructed with: the default props; a caller-supplied
\* shorter sequence, starting fully open, with closeOnEscape off; a widget that
\* starts closed and has no onClose callback.
PropsSet ==
    { [snapPoints |-> snapPointOrder, defaultSnapPoint |-> "half-open",
       closeOnEscape |-> TRUE, onClose |-> TRUE],
      [snapPoints |-> <<"half-open", "fully-open">>, defaultSnapPoint |-> "fully-open",
       closeOnEscape |-> FALSE, onClose |-> TRUE],
      [snapPoints |-> snapPointOrder, defaultSnapPoint |-> "closed",
       closeOnEscape |-> TRUE, onClose |-> FALSE] }

\* window.innerWidth x window.innerHeight the resize events report: a mobile,
\* a tablet and a desktop viewport
Viewports ==
    { [width |-> 375, height |-> 667],
      [width |-> 768, height |-> 1024],
      [width |-> 1024, height |-> 800] }

\* the viewports of the gesture and transition specification
MainViewports == {vp \in Viewports : vp.width # 768}

\* clientY of the pointer-down events and of the pointer-move events
StartYs == {200}
PointerYs == {100, 300}


VARIABLES
    props,              \* the props of the widget instance (fixed after mount)
    isOpen,             \* the isOpen prop, set by the parent
    mounted,            \* FALSE once the component is unmounted
    currentSnapPoint, isDragging, startY, currentY, isAnimating,
    animationProgress, targetHeight, startHeight, dragVelocity, showControls,
    isMobile, isTablet, viewportHeight, viewportWidth, announcement,
    animationRef,       \* animationRef.current: 0 is null, else a frame handle
    velocityRef,        \* velocityRef.current: the sample window
    now,                \* the clock, in ticks of TickMs milliseconds
    rafQueue,           \* the frame callbacks requestAnimationFrame holds
    lastEvent,          \* the kind of user event handled last, if none came after
    closeCalls,         \* calls of props.onClose
    announceCount,      \* calls of announceSnapPointChange
    startedCount,       \* transitions that entered Running
    threw,              \* a handler raised a TypeError
    cancelCalls,        \* calls of cancelAnimationFrame
    call                \* the call of a pure function under check: arguments, result

vars == <<props, isOpen, mounted, currentSnapPoint, isDragging, startY, currentY,
          isAnimating, animationProgress, targetHeight, startHeight, dragVelocity,
          showControls, isMobile, isTablet, viewportHeight, viewportWidth,
          announcement, animationRef, velocityRef, now, rafQueue, lastEvent,
          closeCalls, announceCount, startedCount, threw, cancelCalls, call>>

\* what animateToSnapPoint writes
animVars == <<startHeight, targetHeight, isAnimating, animationProgress,
              animationRef, rafQueue, startedCount>>
\* what the pointer handlers write
dragVars == <<isDragging, startY, currentY, dragVelocity, velocityRef>>
\* what the resize handler and the isOpen effect write
viewVars == <<isMobile, isTablet, viewportHeight, viewportWidth, showControls>>
\* what onClose writes
closeVars == <<closeCalls, threw>>
\* what no handler writes
envVars == <<props, isOpen, mounted, cancelCalls, now, call>>

\* performance.now()
performanceNow == now * TickMs

\* a length such as '60px' or '50%'
Length(v, u) == [value |-> v * Scale, unit |-> u]

(***************************************************************************)
(* Responsive configuration.                                               *)
(***************************************************************************)
getSnapPointConfig ==
    [sp \in Range(snapPointOrder) |->
        CASE sp = "closed" ->
                [height |-> IF isMobile THEN Length(60, "px") ELSE Length(80, "px"),
                 contentVisible |-> FALSE, showSnapButtons |-> FALSE]
          [] sp = "half-open" ->
                [height |-> IF isTablet THEN Length(55, "%")
                            ELSE IF isMobile THEN Length(60, "%") ELSE Length(50, "%"),
                 contentVisible |-> TRUE, showSnapButtons |-> ~isMobile]
          [] sp = "fully-open" ->
                [height |-> IF isTablet THEN Length(92, "%")
                            ELSE IF isMobile THEN Length(95, "%") ELSE Length(90, "%"),
                 contentVisible |-> TRUE, showSnapButtons |-> ~isMobile]]

snapPointConfig == getSnapPointConfig
currentConfig == snapPointConfig[currentSnapPoint]

\* the value getSpringConfig returns on a mobile and on any other device
SpringConfigFor(mobile) ==
    IF mobile
    THEN [tension |-> 4000, friction |-> 7000, mass |-> 8000]
    ELSE [tension |-> 3000, friction |-> 8000, mass |-> 10000]

getSpringConfig == SpringConfigFor(isMobile)

springConfig == getSpringConfig

\* zeta < 1: the underdamped step response
underdamped(omega, zeta, omegaD, t) ==
    Scale - FMul(FExp(-FMul(FMul(zeta, omega), t)),
                 FCos(FMul(omegaD, t))
                 + FMul(FDiv(FMul(zeta, omega), omegaD), FSin(FMul(omegaD, t))))

\* zeta >= 1: the overdamped step response; with omegaN = 0 (critical damping)
\* the source divides by zero and multiplies the Infinity by sinh(0) = 0
overdamped(omega, zeta, omegaN, t) ==
    IF omegaN = 0
    THEN NaN
    ELSE Scale - FMul(FExp(-FMul(FMul(zeta, omega), t)),
                      FCosh(FMul(omegaN, t))
                      + FMul(FDiv(FMul(zeta, omega), omegaN), FSinh(FMul(omegaN, t))))

\* springEase with the spring configuration cfg of the render that defined it
SpringEaseOf(cfg, t) ==
    Only({ IF zeta < Scale
           THEN Only({underdamped(omega, zeta, omegaD, tv) :
                        omegaD \in {FMul(omega, FSqrt(Scale - FMul(zeta, zeta)))}})
           ELSE Only({overdamped(omega, zeta, omegaN, tv) :
                        omegaN \in {FMul(omega, FSqrt(FMul(zeta, zeta) - Scale))}})
           : omega \in {FSqrt(FDiv(cfg.tension, cfg.mass))},
             zeta \in {FDiv(cfg.friction, 2 * FSqrt(FMul(cfg.tension, cfg.mass)))},
             tv \in {t} })

springEase(t) == SpringEaseOf(springConfig, t)

\* const duration = isMobile ? 500 : 600
DurationFor(mobile) == IF mobile THEN 500 ELSE 600

\* the progress values a frame callback of this model computes, and springEase
\* tabulated over them, so that a frame looks the value up instead of summing
\* the series again
FrameProgress ==
    {Min(FDiv(k * TickMs, DurationFor(m)), Scale) : k \in 0..MaxTicks, m \in BOOLEAN}
SpringEaseTable ==
    {[spring |-> SpringConfigFor(m), t |-> p, value |-> SpringEaseOf(SpringConfigFor(m), p)] :
        m \in BOOLEAN, p \in FrameProgress}

\* springEase(t) under the configuration cfg, through the table where it has t
SpringEaseAt(cfg, t) ==
    IF \E e \in SpringEaseTable : e.spring = cfg /\ e.t = t
    THEN (CHOOSE e \in SpringEaseTable : e.spring = cfg /\ e.t = t).value
    ELSE SpringEaseOf(cfg, t)

(***************************************************************************)
(* Velocity estimator.                                                     *)
(***************************************************************************)
\* a window that refuses the sixth sample instead of evicting the oldest
pushSample_KeepOldest(window, y, time) ==
    IF Len(window) >= 5 THEN window ELSE Append(window, [y |-> y, time |-> time])

\* velocityRef.current after calculateVelocity(currentY, currentTime)
pushSample(window, y, time) ==
    LET pushed == Append(window, [y |-> y, time |-> time])
    IN  IF Len(pushed) > 5 THEN Tail(pushed) ELSE pushed

\* the estimator taking the last two samples instead of the oldest and newest
calculateVelocity_LastTwo(window, y, time) ==
    LET w == pushSample(window, y, time)
        first == w[Len(w) - 1]
        last == w[Len(w)]
    IN  IF Len(w) >= 2 /\ last.time - first.time > 0
        THEN ((last.y - first.y) * Scale) \div (last.time - first.time)
        ELSE 0

\* the estimator dividing whenever the elapsed time is not zero
calculateVelocity_AnyElapsed(window, y, time) ==
    LET w == pushSample(window, y, time)
        first == w[1]
        last == w[Len(w)]
    IN  IF Len(w) >= 2 /\ last.time - first.time # 0
        THEN ((last.y - first.y) * Scale) \div (last.time - first.time)
        ELSE 0

\* the value calculateVelocity(currentY, currentTime) returns
calculateVelocity(window, y, time) ==
    LET w == pushSample(window, y, time)
        first == w[1]
        last == w[Len(w)]
        timeDiff == last.time - first.time
        distance == last.y - first.y
    IN  IF Len(w) >= 2 /\ timeDiff > 0
        THEN (distance * Scale) \div timeDiff
        ELSE 0

(***************************************************************************)
(* Snap-point selector.                                                    *)
(***************************************************************************)
\* the selector without its velocity rule
determineTargetSnapPoint_NoVelocity(currentHeight, velocity) ==
    LET heightPercent ==
            IF currentHeight.unit = "%" THEN currentHeight.value \div 100
            ELSE IF currentHeight.unit = "px" THEN currentHeight.value \div viewportHeight
            ELSE 0
        snapThresholds == IF isMobile THEN <<1000, 3000, 7000>> ELSE <<1000, 3500, 7500>>
        hits == {i \in 1..Len(snapThresholds) : heightPercent <= snapThresholds[i]}
    IN  IF hits # {}
        THEN snapPointOrder[CHOOSE i \in hits : \A j \in hits : i <= j]
        ELSE snapPointOrder[Len(snapPointOrder)]

\* the selector comparing with < where the source compares with <=
determineTargetSnapPoint_Strict(currentHeight, velocity) ==
    LET heightPercent ==
            IF currentHeight.unit = "%" THEN currentHeight.value \div 100
            ELSE IF currentHeight.unit = "px" THEN currentHeight.value \div viewportHeight
            ELSE 0
        snapThresholds == IF isMobile THEN <<1000, 3000, 7000>> ELSE <<1000, 3500, 7500>>
        hits == {i \in 1..Len(snapThresholds) : heightPercent < snapThresholds[i]}
        currentIndex == IndexOf(snapPointOrder, currentSnapPoint)
    IN  IF Abs(velocity) > (IF isMobile THEN 3000 ELSE 5000)
        THEN IF velocity < 0
             THEN IF currentIndex < Len(snapPointOrder) - 1
                  THEN At(snapPointOrder, currentIndex + 1)
                  ELSE currentSnapPoint
             ELSE IF currentIndex > 0
                  THEN At(snapPointOrder, currentIndex - 1)
                  ELSE "closed"
        ELSE IF hits # {}
             THEN snapPointOrder[CHOOSE i \in hits : \A j \in hits : i <= j]
             ELSE snapPointOrder[Len(snapPointOrder)]

determineTargetSnapPoint(currentHeight, velocity) ==
    LET currentIndex == IndexOf(snapPointOrder, currentSnapPoint)
        heightPercent ==
            IF currentHeight.unit = "%" THEN currentHeight.value \div 100
            ELSE IF currentHeight.unit = "px" THEN currentHeight.value \div viewportHeight
            ELSE 0
        velocityThreshold == IF isMobile THEN 3000 ELSE 5000
        snapThresholds == IF isMobile THEN <<1000, 3000, 7000>> ELSE <<1000, 3500, 7500>>
        hits == {i \in 1..Len(snapThresholds) : heightPercent <= snapThresholds[i]}
    IN  IF Abs(velocity) > velocityThreshold
        THEN IF velocity < 0
             THEN IF currentIndex < Len(snapPointOrder) - 1
                  THEN At(snapPointOrder, currentIndex + 1)
                  ELSE currentSnapPoint
             ELSE IF currentIndex > 0
                  THEN At(snapPointOrder, currentIndex - 1)
                  ELSE "closed"
        ELSE IF hits # {}
             THEN snapPointOrder[CHOOSE i \in hits : \A j \in hits : i <= j]
             ELSE snapPointOrder[Len(snapPointOrder)]

(***************************************************************************)
(* Displayed extent.                                                       *)
(***************************************************************************)
\* getCurrentHeight interpolating the two numbers whatever their units
getCurrentHeight_InterpolatesMixed ==
    IF ~isAnimating THEN currentConfig.height
    ELSE [value |-> startHeight.value
                    + FMul(targetHeight.value - startHeight.value, animationProgress),
          unit |-> targetHeight.unit]

\* getCurrentHeight following the pointer while a gesture session is open
getCurrentHeight_FollowsPointer ==
    IF isDragging /\ ~isAnimating
    THEN [value |-> (viewportHeight - currentY) * Scale, unit |-> "px"]
    ELSE IF ~isAnimating THEN currentConfig.height
    ELSE IF startHeight.unit = targetHeight.unit
         THEN [value |-> startHeight.value
                         + FMul(targetHeight.value - startHeight.value, animationProgress),
               unit |-> targetHeight.unit]
         ELSE targetHeight

getCurrentHeight ==
    IF ~isAnimating THEN currentConfig.height
    ELSE IF startHeight.unit = targetHeight.unit
         THEN [value |-> startHeight.value
                         + FMul(targetHeight.value - startHeight.value, animationProgress),
               unit |-> targetHeight.unit]
         ELSE targetHeight

(***************************************************************************)
(* Initial state: the component after mount, once the mount effects        *)
(* (the first handleResize call, the isOpen effect) have run.              *)
(***************************************************************************)
\* the value of `call` while the widget runs: no function is under check
NoCall == [op |-> "none"]

Init ==
    /\ call = NoCall
    /\ props \in PropsSet
    /\ isOpen = TRUE
    /\ mounted = TRUE
    /\ currentSnapPoint = props.defaultSnapPoint
    /\ isDragging = FALSE
    /\ startY = 0
    /\ currentY = 0
    /\ isAnimating = FALSE
    /\ animationProgress = 0
    /\ targetHeight = Length(50, "%")
    /\ startHeight = Length(50, "%")
    /\ dragVelocity = 0
    /\ \E vp \in MainViewports :
          /\ viewportWidth = vp.width
          /\ viewportHeight = vp.height
          /\ isMobile = (vp.width < 768)
          /\ isTablet = (vp.width >= 768 /\ vp.width < 1024)
    /\ showControls = (isOpen /\ ~isMobile)
    /\ announcement = IF isOpen THEN "opened" ELSE ""
    /\ animationRef = 0
    /\ velocityRef = <<>>
    /\ now = 0
    /\ rafQueue = {}
    /\ lastEvent = "none"
    /\ closeCalls = 0
    /\ announceCount = 0
    /\ startedCount = 0
    /\ threw = FALSE
    /\ cancelCalls = 0

\* the sheet is rendered and the user can still act on it
Interactive == mounted /\ isOpen /\ now <= EventTicks

(***************************************************************************)
(* Transition animator.                                                    *)
(***************************************************************************)
\* the handle requestAnimationFrame returns: one no pending callback has
NewHandle(queue) ==
    CHOOSE id \in 1..(Cardinality(queue) + 1) :
        /\ \A cb \in queue : cb.id # id
        /\ \A j \in 1..(id - 1) : \E cb \in queue : cb.id = j

\* animateToSnapPoint without its `if (isAnimating) return`
animateToSnapPoint_NoGuard(targetSnapPoint) ==
    /\ startHeight' = snapPointConfig[currentSnapPoint].height
    /\ targetHeight' = snapPointConfig[targetSnapPoint].height
    /\ isAnimating' = TRUE
    /\ animationProgress' = 0
    /\ animationRef' = NewHandle(rafQueue)
    /\ rafQueue' = rafQueue \cup
           {[id |-> NewHandle(rafQueue),
             startTime |-> performanceNow,
             duration |-> DurationFor(isMobile),
             targetSnapPoint |-> targetSnapPoint,
             spring |-> springConfig]}
    /\ startedCount' = startedCount + 1

animateToSnapPoint(targetSnapPoint) ==
    IF isAnimating
    THEN UNCHANGED animVars
    ELSE /\ startHeight' = snapPointConfig[currentSnapPoint].height
         /\ targetHeight' = snapPointConfig[targetSnapPoint].height
         /\ isAnimating' = TRUE
         /\ animationProgress' = 0
         /\ animationRef' = NewHandle(rafQueue)
         /\ rafQueue' = rafQueue \cup
                {[id |-> NewHandle(rafQueue),
                  startTime |-> performanceNow,
                  duration |-> DurationFor(isMobile),
                  targetSnapPoint |-> targetSnapPoint,
                  spring |-> springConfig]}
         /\ startedCount' = startedCount + 1

\* the text announceSnapPointChange sets
announceSnapPointChange(snapPoint) ==
    CASE snapPoint = "closed" -> "Bottom sheet minimized"
      [] snapPoint = "half-open" -> "Bottom sheet half open"
      [] snapPoint = "fully-open" -> "Bottom sheet fully open"
      [] OTHER -> "Bottom sheet other"

\* animate forgetting to request the next frame
rescheduleFrame_Forgotten(cb) ==
    /\ rafQueue' = rafQueue \ {cb}
    /\ UNCHANGED <<animationRef, isAnimating, currentSnapPoint, dragVelocity,
                   velocityRef, announcement, announceCount>>

\* animate setting the current snap point in every frame
rescheduleFrame_SetsSnapPoint(cb) ==
    LET rest == rafQueue \ {cb}
    IN  /\ animationRef' = NewHandle(rest)
        /\ rafQueue' = rest \cup {[cb EXCEPT !.id = NewHandle(rest)]}
        /\ currentSnapPoint' = cb.targetSnapPoint
        /\ UNCHANGED <<isAnimating, dragVelocity, velocityRef, announcement,
                       announceCount>>

\* animate, progress < 1: requestAnimationFrame(animate) again
rescheduleFrame(cb) ==
    LET rest == rafQueue \ {cb}
    IN  /\ animationRef' = NewHandle(rest)
        /\ rafQueue' = rest \cup {[cb EXCEPT !.id = NewHandle(rest)]}
        /\ UNCHANGED <<isAnimating, currentSnapPoint, dragVelocity, velocityRef,
                       announcement, announceCount>>

\* the commit step without the call of announceSnapPointChange
commitTransition_NoAnnounce(cb) ==
    /\ rafQueue' = rafQueue \ {cb}
    /\ velocityRef' = <<>>
    /\ IF mounted
       THEN /\ isAnimating' = FALSE
            /\ currentSnapPoint' = cb.targetSnapPoint
            /\ animationProgress' = 0
            /\ dragVelocity' = 0
       ELSE UNCHANGED <<isAnimating, currentSnapPoint, animationProgress, dragVelocity>>
    /\ UNCHANGED <<animationRef, announcement, announceCount>>

\* a commit step after which the frame callback is still scheduled
commitTransition_KeepsFrame(cb) ==
    /\ rafQueue' = rafQueue
    /\ velocityRef' = <<>>
    /\ IF mounted
       THEN /\ isAnimating' = FALSE
            /\ currentSnapPoint' = cb.targetSnapPoint
            /\ animationProgress' = 0
            /\ dragVelocity' = 0
            /\ announcement' = announceSnapPointChange(cb.targetSnapPoint)
            /\ announceCount' = announceCount + 1
       ELSE UNCHANGED <<isAnimating, currentSnapPoint, animationProgress,
                        dragVelocity, announcement, announceCount>>
    /\ UNCHANGED animationRef

\* animate, progress = 1: commit the target and announce it; the state setters
\* of an unmounted component have no effect
commitTransition(cb) ==
    /\ rafQueue' = rafQueue \ {cb}
    /\ velocityRef' = <<>>
    /\ IF mounted
       THEN /\ isAnimating' = FALSE
            /\ currentSnapPoint' = cb.targetSnapPoint
            /\ animationProgress' = 0
            /\ dragVelocity' = 0
            /\ announcement' = announceSnapPointChange(cb.targetSnapPoint)
            /\ announceCount' = announceCount + 1
       ELSE UNCHANGED <<isAnimating, currentSnapPoint, animationProgress,
                        dragVelocity, announcement, announceCount>>
    /\ UNCHANGED animationRef

\* the frame callback `animate` of the transition cb, run at the current time
animate(cb) ==
    LET elapsed == performanceNow - cb.startTime
        progress == Min(FDiv(elapsed, cb.duration), Scale)
        springProgress == SpringEaseAt(cb.spring, progress)
    IN  /\ cb \in rafQueue
        /\ lastEvent' = "none"
        /\ UNCHANGED <<envVars, viewVars, closeVars, isDragging, startY, currentY,
                       targetHeight, startHeight, startedCount>>
        /\ IF progress < Scale
           THEN /\ animationProgress' = IF mounted THEN springProgress
                                        ELSE animationProgress
                /\ rescheduleFrame(cb)
           ELSE commitTransition(cb)

\* an unmount whose cleanup does not call cancelAnimationFrame
Unmount_NoCancel ==
    /\ mounted
    /\ mounted' = FALSE
    /\ lastEvent' = "none"
    /\ UNCHANGED <<props, isOpen, now, call, currentSnapPoint, dragVars, viewVars, closeVars,
                   isAnimating, animationProgress, targetHeight, startHeight,
                   announcement, animationRef, rafQueue, announceCount, startedCount,
                   cancelCalls>>

\* the cleanup of the unmount effect
Unmount ==
    /\ mounted
    /\ mounted' = FALSE
    /\ lastEvent' = "none"
    /\ IF animationRef # 0
       THEN /\ rafQueue' = {cb \in rafQueue : cb.id # animationRef}
            /\ cancelCalls' = cancelCalls + 1
       ELSE UNCHANGED <<rafQueue, cancelCalls>>
    /\ UNCHANGED <<props, isOpen, now, call, currentSnapPoint, dragVars, viewVars, closeVars,
                   isAnimating, animationProgress, targetHeight, startHeight,
                   announcement, animationRef, announceCount, startedCount>>

\* props.onClose()
onClose ==
    IF props.onClose
    THEN /\ closeCalls < MaxCloseCalls
         /\ closeCalls' = closeCalls + 1
         /\ threw' = threw
    ELSE /\ threw' = TRUE
         /\ closeCalls' = closeCalls

(***************************************************************************)
(* Gesture tracker.                                                        *)
(***************************************************************************)
\* handleTouchStart without its `if (isAnimating) return`
handleTouchStart_NoGuard(y) ==
    /\ Interactive
    /\ lastEvent' = "touchStart"
    /\ isDragging' = TRUE
    /\ startY' = y
    /\ currentY' = y
    /\ dragVelocity' = 0
    /\ velocityRef' = <<>>
    /\ UNCHANGED <<envVars, viewVars, closeVars, animVars, currentSnapPoint,
                   announcement, announceCount>>

handleTouchStart(y) ==
    /\ Interactive
    /\ lastEvent' = "touchStart"
    /\ IF isAnimating
       THEN UNCHANGED dragVars
       ELSE /\ isDragging' = TRUE
            /\ startY' = y
            /\ currentY' = y
            /\ dragVelocity' = 0
            /\ velocityRef' = <<>>
    /\ UNCHANGED <<envVars, viewVars, closeVars, animVars, currentSnapPoint,
                   announcement, announceCount>>

\* handleTouchMove without its `if (!isDragging || isAnimating) return`
handleTouchMove_NoGuard(y) ==
    /\ Interactive
    /\ lastEvent' = "touchMove"
    /\ Len(velocityRef) < MaxMoves
    /\ currentY' = y
    /\ dragVelocity' = calculateVelocity(velocityRef, y, performanceNow)
    /\ velocityRef' = pushSample(velocityRef, y, performanceNow)
    /\ UNCHANGED <<isDragging, startY>>
    /\ UNCHANGED <<envVars, viewVars, closeVars, animVars, currentSnapPoint,
                   announcement, announceCount>>

handleTouchMove(y) ==
    /\ Interactive
    /\ lastEvent' = "touchMove"
    /\ IF ~isDragging \/ isAnimating
       THEN UNCHANGED dragVars
       ELSE /\ Len(velocityRef) < MaxMoves
            /\ currentY' = y
            /\ dragVelocity' = calculateVelocity(velocityRef, y, performanceNow)
            /\ velocityRef' = pushSample(velocityRef, y, performanceNow)
            /\ UNCHANGED <<isDragging, startY>>
    /\ UNCHANGED <<envVars, viewVars, closeVars, animVars, currentSnapPoint,
                   announcement, announceCount>>

handleTouchEnd ==
    /\ Interactive
    /\ lastEvent' = "touchEnd"
    /\ IF ~isDragging \/ isAnimating
       THEN UNCHANGED <<isDragging, animVars, closeVars>>
       ELSE LET currentHeight == getCurrentHeight
                targetSnapPoint == determineTargetSnapPoint(currentHeight, dragVelocity)
            IN  /\ isDragging' = FALSE
                /\ IF targetSnapPoint = "closed" /\ currentSnapPoint = "closed"
                   THEN onClose /\ UNCHANGED animVars
                   ELSE IF targetSnapPoint # currentSnapPoint
                        THEN animateToSnapPoint(targetSnapPoint) /\ UNCHANGED closeVars
                        ELSE UNCHANGED <<animVars, closeVars>>
    /\ UNCHANGED <<envVars, viewVars, currentSnapPoint, startY, currentY, dragVelocity,
                   velocityRef, announcement, announceCount>>

(***************************************************************************)
(* Discrete commands.                                                      *)
(***************************************************************************)
Keys == {"Escape", "ArrowUp", "ArrowDown", "Home", "End"}

\* handleKeyDown whose ArrowDown case lacks the `else if (currentIndexDown === 0)`
\* branch
handleKeyDown_NoCloseAtFirst(key) ==
    /\ Interactive
    /\ lastEvent' = "command"
    /\ LET currentIndex == IndexOf(snapPointOrder, currentSnapPoint)
       IN  CASE key = "Escape" ->
                    IF props.closeOnEscape
                    THEN IF currentSnapPoint = "closed"
                         THEN onClose /\ UNCHANGED animVars
                         ELSE animateToSnapPoint("closed") /\ UNCHANGED closeVars
                    ELSE UNCHANGED <<animVars, closeVars>>
             [] key = "ArrowUp" ->
                    IF currentIndex < Len(snapPointOrder) - 1
                    THEN animateToSnapPoint(At(snapPointOrder, currentIndex + 1))
                         /\ UNCHANGED closeVars
                    ELSE UNCHANGED <<animVars, closeVars>>
             [] key = "ArrowDown" ->
                    IF currentIndex > 0
                    THEN animateToSnapPoint(At(snapPointOrder, currentIndex - 1))
                         /\ UNCHANGED closeVars
                    ELSE UNCHANGED <<animVars, closeVars>>
             [] key = "Home" -> animateToSnapPoint("fully-open") /\ UNCHANGED closeVars
             [] key = "End" -> animateToSnapPoint("closed") /\ UNCHANGED closeVars
    /\ UNCHANGED <<envVars, viewVars, dragVars, currentSnapPoint, announcement,
                   announceCount>>

handleKeyDown(key) ==
    /\ Interactive
    /\ lastEvent' = "command"
    /\ LET currentIndex == IndexOf(snapPointOrder, currentSnapPoint)
       IN  CASE key = "Escape" ->
                    IF props.closeOnEscape
                    THEN IF currentSnapPoint = "closed"
                         THEN onClose /\ UNCHANGED animVars
                         ELSE animateToSnapPoint("closed") /\ UNCHANGED closeVars
                    ELSE UNCHANGED <<animVars, closeVars>>
             [] key = "ArrowUp" ->
                    IF currentIndex < Len(snapPointOrder) - 1
                    THEN animateToSnapPoint(At(snapPointOrder, currentIndex + 1))
                         /\ UNCHANGED closeVars
                    ELSE UNCHANGED <<animVars, closeVars>>
             [] key = "ArrowDown" ->
                    IF currentIndex > 0
                    THEN animateToSnapPoint(At(snapPointOrder, currentIndex - 1))
                         /\ UNCHANGED closeVars
                    ELSE IF currentIndex = 0
                         THEN onClose /\ UNCHANGED animVars
                         ELSE UNCHANGED <<animVars, closeVars>>
             [] key = "Home" -> animateToSnapPoint("fully-open") /\ UNCHANGED closeVars
             [] key = "End" -> animateToSnapPoint("closed") /\ UNCHANGED closeVars
    /\ UNCHANGED <<envVars, viewVars, dragVars, currentSnapPoint, announcement,
                   announceCount>>

\* onKeyDown of the drag handle, for Enter and Space
handleOnKeyDown ==
    /\ Interactive
    /\ lastEvent' = "command"
    /\ LET nextSnapPoint == IF currentSnapPoint = "half-open" THEN "fully-open"
                            ELSE "half-open"
       IN  animateToSnapPoint(nextSnapPoint)
    /\ UNCHANGED <<envVars, viewVars, dragVars, closeVars, currentSnapPoint,
                   announcement, announceCount>>

\* the snap-point buttons are rendered when currentConfig.showSnapButtons and
\* are disabled while animating
handleSnapPointClick(snapPoint) ==
    /\ Interactive
    /\ currentConfig.showSnapButtons
    /\ ~isAnimating
    /\ lastEvent' = "command"
    /\ IF snapPoint # currentSnapPoint /\ ~isAnimating
       THEN animateToSnapPoint(snapPoint)
       ELSE UNCHANGED animVars
    /\ UNCHANGED <<envVars, viewVars, dragVars, closeVars, currentSnapPoint,
                   announcement, announceCount>>

\* handleOverlayClick calling onClose without looking at the snap point
handleOverlayClick_AlwaysCloses ==
    /\ Interactive
    /\ lastEvent' = "command"
    /\ onClose /\ UNCHANGED animVars
    /\ UNCHANGED <<envVars, viewVars, dragVars, currentSnapPoint, announcement,
                   announceCount>>

handleOverlayClick ==
    /\ Interactive
    /\ lastEvent' = "command"
    /\ IF currentSnapPoint = "closed"
       THEN onClose /\ UNCHANGED animVars
       ELSE animateToSnapPoint("closed") /\ UNCHANGED closeVars
    /\ UNCHANGED <<envVars, viewVars, dragVars, currentSnapPoint, announcement,
                   announceCount>>

\* the manual controls are rendered when showControls and the sheet is not
\* closed, and are disabled while animating
ControlsRendered == showControls /\ currentSnapPoint # "closed" /\ ~isAnimating

handleMinimize ==
    /\ Interactive
    /\ ControlsRendered
    /\ lastEvent' = "command"
    /\ IF ~isAnimating THEN animateToSnapPoint("closed") ELSE UNCHANGED animVars
    /\ UNCHANGED <<envVars, viewVars, dragVars, closeVars, currentSnapPoint,
                   announcement, announceCount>>

handleMaximize ==
    /\ Interactive
    /\ ControlsRendered
    /\ lastEvent' = "command"
    /\ IF ~isAnimating THEN animateToSnapPoint("fully-open") ELSE UNCHANGED animVars
    /\ UNCHANGED <<envVars, viewVars, dragVars, closeVars, currentSnapPoint,
                   announcement, announceCount>>

handleToggle ==
    /\ Interactive
    /\ ControlsRendered
    /\ lastEvent' = "command"
    /\ IF ~isAnimating
       THEN animateToSnapPoint(IF currentSnapPoint = "half-open" THEN "fully-open"
                               ELSE "half-open")
       ELSE UNCHANGED animVars
    /\ UNCHANGED <<envVars, viewVars, dragVars, closeVars, currentSnapPoint,
                   announcement, announceCount>>

(***************************************************************************)
(* Environment: viewport, parent, clock.                                   *)
(***************************************************************************)
\* a handleResize that counts the width 768 as mobile too
handleResize_WideMobile(vp) ==
    /\ mounted
    /\ now <= EventTicks
    /\ lastEvent' = "none"
    /\ viewportWidth' = vp.width
    /\ viewportHeight' = vp.height
    /\ isMobile' = (vp.width <= 768)
    /\ isTablet' = (vp.width >= 768 /\ vp.width < 1024)
    /\ IF isOpen /\ isMobile' # isMobile
       THEN showControls' = ~isMobile' /\ announcement' = "opened"
       ELSE UNCHANGED <<showControls, announcement>>
    /\ UNCHANGED <<envVars, dragVars, closeVars, animVars, currentSnapPoint,
                   announceCount>>

\* a handleResize after which the isOpen effect does not run again
handleResize_NoEffect(vp) ==
    /\ mounted
    /\ now <= EventTicks
    /\ lastEvent' = "none"
    /\ viewportWidth' = vp.width
    /\ viewportHeight' = vp.height
    /\ isMobile' = (vp.width < 768)
    /\ isTablet' = (vp.width >= 768 /\ vp.width < 1024)
    /\ UNCHANGED <<showControls, announcement>>
    /\ UNCHANGED <<envVars, dragVars, closeVars, animVars, currentSnapPoint,
                   announceCount>>

\* handleResize, followed by the isOpen effect when isMobile changed
handleResize(vp) ==
    /\ mounted
    /\ now <= EventTicks
    /\ lastEvent' = "none"
    /\ viewportWidth' = vp.width
    /\ viewportHeight' = vp.height
    /\ isMobile' = (vp.width < 768)
    /\ isTablet' = (vp.width >= 768 /\ vp.width < 1024)
    /\ IF isOpen /\ isMobile' # isMobile
       THEN showControls' = ~isMobile' /\ announcement' = "opened"
       ELSE UNCHANGED <<showControls, announcement>>
    /\ UNCHANGED <<envVars, dragVars, closeVars, animVars, currentSnapPoint,
                   announceCount>>

\* the parent renders the widget with another isOpen; the isOpen effect runs
SetIsOpen(open) ==
    /\ mounted
    /\ now <= EventTicks
    /\ open # isOpen
    /\ isOpen' = open
    /\ lastEvent' = "none"
    /\ showControls' = IF open THEN ~isMobile ELSE FALSE
    /\ announcement' = IF open THEN "opened" ELSE announcement
    /\ UNCHANGED <<props, mounted, cancelCalls, now, call, dragVars, closeVars, animVars, currentSnapPoint,
                   isMobile, isTablet, viewportHeight, viewportWidth, announceCount>>

\* time passes; the clock is followed while the user can still act on a
\* mounted widget, and after that while a frame callback is pending
Tick ==
    /\ \/ mounted /\ now < EventTicks
       \/ rafQueue # {} /\ now < MaxTicks
    /\ now' = now + 1
    /\ lastEvent' = "none"
    /\ UNCHANGED <<props, isOpen, mounted, cancelCalls, call, dragVars, viewVars, closeVars, animVars,
                   currentSnapPoint, announcement, announceCount>>

\* the browser runs a pending frame callback
Frame == \E cb \in rafQueue : animate(cb)

Next ==
    \/ \E y \in StartYs : handleTouchStart(y)
    \/ \E y \in PointerYs : handleTouchMove(y)
    \/ handleTouchEnd
    \/ \E key \in Keys : handleKeyDown(key)
    \/ handleOnKeyDown
    \/ \E sp \in Range(snapPointOrder) : handleSnapPointClick(sp)
    \/ handleOverlayClick
    \/ handleMinimize
    \/ handleMaximize
    \/ handleToggle
    \/ \E vp \in MainViewports : handleResize(vp)
    \/ Unmount
    \/ Tick
    \/ Frame

Spec == Init /\ [][Next]_vars

\* The frame callbacks are run by the browser and the clock advances.
LiveSpec == Spec /\ WF_vars(Tick) /\ WF_vars(Frame)

(***************************************************************************)
(* The snap-point selector as a function: a widget at rest in any snap     *)
(* point of its sequence, on any device, and one call of                   *)
(* determineTargetSnapPoint with any extent and velocity.                  *)
(***************************************************************************)
\* the extents passed as currentHeight: percentages of the viewport (0 and
\* 100 included, and the thresholds with a value on either side) and pixels
SelectorPercents == {0, 5, 10, 11, 20, 30, 31, 35, 36, 50, 70, 71, 75, 76, 100}
SelectorPixels == {0, 60, 80, 400, 667}
SelectorHeights ==
    {Length(p, "%") : p \in SelectorPercents} \cup {Length(p, "px") : p \in SelectorPixels}

\* the velocities passed, in pixels per millisecond (fixed point): the two
\* thresholds, and values below, between and above them, of either sign
SelectorVelocities ==
    {-6000, -5000, -4000, -3000, -2000, 0, 2000, 3000, 4000, 5000, 6000}

\* the state of a mounted, open widget at rest with the viewport vp
AtRest(vp) ==
    /\ isOpen = TRUE
    /\ mounted = TRUE
    /\ isDragging = FALSE
    /\ startY = 0
    /\ currentY = 0
    /\ isAnimating = FALSE
    /\ animationProgress = 0
    /\ targetHeight = Length(50, "%")
    /\ startHeight = Length(50, "%")
    /\ dragVelocity = 0
    /\ viewportWidth = vp.width
    /\ viewportHeight = vp.height
    /\ isMobile = (vp.width < 768)
    /\ isTablet = (vp.width >= 768 /\ vp.width < 1024)
    /\ showControls = ~isMobile
    /\ announcement = "opened"
    /\ animationRef = 0
    /\ velocityRef = <<>>
    /\ now = 0
    /\ rafQueue = {}
    /\ lastEvent = "none"
    /\ closeCalls = 0
    /\ announceCount = 0
    /\ startedCount = 0
    /\ threw = FALSE
    /\ cancelCalls = 0

SelectorInit ==
    /\ props \in PropsSet
    /\ currentSnapPoint \in Range(props.snapPoints)
    /\ \E vp \in Viewports : AtRest(vp)
    /\ \E h \in SelectorHeights, v \in SelectorVelocities :
          call = [op |-> "determineTargetSnapPoint", currentHeight |-> h,
                  velocity |-> v, result |-> "pending"]

\* determineTargetSnapPoint(currentHeight, velocity) returns
SelectTarget ==
    /\ call.op = "determineTargetSnapPoint"
    /\ call.result = "pending"
    /\ call' = [call EXCEPT
                  !.result = determineTargetSnapPoint(call.currentHeight, call.velocity)]
    /\ UNCHANGED <<props, isOpen, mounted, cancelCalls, now, currentSnapPoint, dragVars, viewVars,
                   closeVars, animVars, announcement, announceCount, lastEvent>>

SelectorSpec == SelectorInit /\ [][SelectTarget]_vars

(***************************************************************************)
(* The velocity estimator as a function: calls of calculateVelocity with   *)
(* any positions and timestamps, and resets of the window.  `call` keeps   *)
(* every sample observed since the last reset, and the value returned.     *)
(***************************************************************************)
\* the positions observed, the timestamp of the first sample of a session and
\* the time between two samples, in milliseconds: a clock that went back, two
\* samples of the same instant, a frame later
SampleYs == {100, 300}
FirstSampleTime == 1000 * 1
SampleSteps == {-16, 0, 16}

VelocityInit ==
    /\ props \in {p \in PropsSet : p.defaultSnapPoint = "half-open"}
    /\ currentSnapPoint = props.defaultSnapPoint
    /\ \E vp \in {v \in Viewports : v.width = 1024} : AtRest(vp)
    /\ call = [op |-> "calculateVelocity", observed |-> <<>>, result |-> "none"]

\* calculateVelocity(y, time), time being step after the sample before
Observe(y, step) ==
    LET time == IF call.observed = <<>> THEN FirstSampleTime
                ELSE call.observed[Len(call.observed)].time + step
    IN  /\ call.op = "calculateVelocity"
        /\ Len(call.observed) < MaxObserved
        /\ velocityRef' = pushSample(velocityRef, y, time)
        /\ call' = [call EXCEPT
                      !.observed = Append(@, [y |-> y, time |-> time]),
                      !.result = calculateVelocity(velocityRef, y, time)]
        /\ UNCHANGED <<props, isOpen, mounted, cancelCalls, now, currentSnapPoint, viewVars, closeVars,
                       animVars, announcement, announceCount, lastEvent, isDragging,
                       startY, currentY, dragVelocity>>

\* velocityRef.current = []
ResetWindow ==
    /\ call.op = "calculateVelocity"
    /\ call.observed # <<>>
    /\ velocityRef' = <<>>
    /\ call' = [call EXCEPT !.observed = <<>>, !.result = "none"]
    /\ UNCHANGED <<props, isOpen, mounted, cancelCalls, now, currentSnapPoint, viewVars, closeVars,
                   animVars, announcement, announceCount, lastEvent, isDragging,
                   startY, currentY, dragVelocity>>

VelocityNext ==
    \/ \E y \in SampleYs, step \in SampleSteps : Observe(y, step)
    \/ ResetWindow

VelocitySpec == VelocityInit /\ [][VelocityNext]_vars

(***************************************************************************)
(* springEase as a function of the spring configuration and of t: one call *)
(* with any configuration of positive tension, friction and mass, in fixed *)
(* point, on either side of critical damping and at it.                    *)
(***************************************************************************)
\* 0.3, 0.4 (the two built-in tensions), 1 and 4
SpringTensions == {3000, 4000, 10000, 40000}
\* 0.7, 0.8 (the two built-in frictions), 2 and 4
SpringFrictions == {7000, 8000, 20000, 40000}
\* 0.8, 1 (the two built-in masses) and 4
SpringMasses == {8000, 10000, 40000}
SpringConfigs ==
    {[tension |-> k, friction |-> c, mass |-> m] :
        k \in SpringTensions, c \in SpringFrictions, m \in SpringMasses}
\* progress 0, 0.25, 0.5 and 1
EaseTimes == {0, 2500, 5000, 10000}

\* zeta of springEase
ZetaOf(cfg) == FDiv(cfg.friction, 2 * FSqrt(FMul(cfg.tension, cfg.mass)))

EaseInit ==
    /\ props \in {p \in PropsSet : p.defaultSnapPoint = "half-open"}
    /\ currentSnapPoint = props.defaultSnapPoint
    /\ \E vp \in {v \in Viewports : v.width = 1024} : AtRest(vp)
    /\ \E cfg \in SpringConfigs, t \in EaseTimes :
          call = [op |-> "springEase", spring |-> cfg, t |-> t, returned |-> FALSE,
                  result |-> 0]

\* springEase(t) returns, springConfig being call.spring
Ease ==
    /\ call.op = "springEase"
    /\ ~call.returned
    /\ call' = [call EXCEPT !.returned = TRUE,
                            !.result = SpringEaseOf(call.spring, call.t)]
    /\ UNCHANGED <<props, isOpen, mounted, cancelCalls, now, currentSnapPoint, dragVars,
                   viewVars, closeVars, animVars, announcement, announceCount,
                   lastEvent>>

EaseSpec == EaseInit /\ [][Ease]_vars

(***************************************************************************)
(* The responsive widget: resize and orientation events over every device  *)
(* class and its boundary widths, the parent opening and closing the       *)
(* sheet, the discrete commands and the transitions they start.            *)
(***************************************************************************)
\* the viewports of the resize events: the three device classes, and the last
\* width of the mobile and of the tablet class
ResizeViewports ==
    Viewports \cup {[width |-> 767, height |-> 1024], [width |-> 1023, height |-> 768]}

ViewInit ==
    /\ call = NoCall
    /\ props \in PropsSet
    /\ currentSnapPoint = props.defaultSnapPoint
    /\ \E vp \in ResizeViewports : AtRest(vp)

ViewNext ==
    \/ \E vp \in ResizeViewports : handleResize(vp)
    \/ \E open \in BOOLEAN : SetIsOpen(open)
    \/ \E key \in Keys : handleKeyDown(key)
    \/ handleOnKeyDown
    \/ \E sp \in Range(snapPointOrder) : handleSnapPointClick(sp)
    \/ handleOverlayClick
    \/ handleMinimize
    \/ handleMaximize
    \/ handleToggle
    \/ Tick
    \/ Frame

ViewSpec == ViewInit /\ [][ViewNext]_vars

(***************************************************************************)
(* The step commands alone: a widget at rest in its default snap point,    *)
(* ArrowUp and ArrowDown pressed at any time, and the transitions they     *)
(* start.                                                                  *)
(***************************************************************************)
ArrowKeys == {"ArrowUp", "ArrowDown"}

ArrowInit ==
    /\ call = NoCall
    /\ props \in PropsSet
    /\ currentSnapPoint = props.defaultSnapPoint
    /\ \E vp \in Viewports : AtRest(vp)

ArrowNext ==
    \/ \E key \in ArrowKeys : handleKeyDown(key)
    \/ Tick
    \/ Frame

ArrowSpec == ArrowInit /\ [][ArrowNext]_vars

(***************************************************************************)
(* The gestures alone, on every device class: a widget at rest in its      *)
(* default snap point, sessions with pointer positions that give           *)
(* velocities below and above the thresholds, and the transitions the      *)
(* releases start.                                                         *)
(***************************************************************************)
\* clientY of the pointer-move events: over a tick of 300 ms, 250 -> 300 is
\* 0.17 px/ms, 200 -> 300 is 0.33 px/ms and 100 -> 300 is 0.67 px/ms
GestureYs == {100, 200, 250, 300}

GestureInit ==
    /\ call = NoCall
    /\ props \in PropsSet
    /\ currentSnapPoint = props.defaultSnapPoint
    /\ \E vp \in Viewports : AtRest(vp)

GestureNext ==
    \/ \E y \in StartYs : handleTouchStart(y)
    \/ \E y \in GestureYs : handleTouchMove(y)
    \/ handleTouchEnd
    \/ Tick
    \/ Frame

GestureSpec == GestureInit /\ [][GestureNext]_vars

(***************************************************************************)
(* Properties.                                                             *)
(***************************************************************************)
\* a user event (pointer event or command) was handled in this step
UserEvent == lastEvent' # "none"

\* C1: a gesture session and a transition are never active at the same time
\* (isDragging and isAnimating are never both true).
C1_MutuallyExclusive == ~(isDragging /\ isAnimating)

\* C2: a transition request made while a transition is Running is a no-op: the
\* from and target snap points, the captured extents, the start timestamp and
\* the frame loop of the transition in flight are unchanged by every user event,
\* and at most one transition is in flight.
C2_RequestWhileRunning ==
    /\ [](Cardinality(rafQueue) <= 1)
    /\ [][(isAnimating /\ UserEvent) =>
            UNCHANGED <<rafQueue, animationRef, startHeight, targetHeight,
                        currentSnapPoint, isAnimating, startedCount>>]_vars

\* a command arrived after the running transition had advanced by a frame
C2_Witness ==
    /\ isAnimating
    /\ animationProgress > 0
    /\ lastEvent = "command"
    /\ Cardinality(rafQueue) = 1

\* C3: a request for a transition to the current snap point (Home at fully
\* open, End at closed, the maximize button at fully open, a snap button for
\* the current snap point) leaves the animator Idle and schedules no frame.
C3_RequestToCurrentIsNoOp ==
    [][( \/ handleKeyDown("Home") /\ currentSnapPoint = "fully-open"
         \/ handleKeyDown("End") /\ currentSnapPoint = "closed"
         \/ handleMaximize /\ currentSnapPoint = "fully-open"
         \/ handleMinimize /\ currentSnapPoint = "closed"
         \/ handleSnapPointClick(currentSnapPoint) )
        => UNCHANGED <<isAnimating, rafQueue, startedCount>>]_vars

\* C4: the step that completes a transition returns the animator to Idle with
\* the current snap point equal to the target, empties the velocity window and
\* emits exactly one settle notification naming the target; the number of
\* notifications equals the number of completed transitions.
C4_Commit ==
    /\ [](announceCount + (IF isAnimating THEN 1 ELSE 0) = startedCount)
    /\ [][(isAnimating /\ ~isAnimating') =>
            /\ \E cb \in rafQueue :
                  /\ currentSnapPoint' = cb.targetSnapPoint
                  /\ announcement' = announceSnapPointChange(cb.targetSnapPoint)
            /\ velocityRef' = <<>>
            /\ rafQueue' = {}
            /\ announceCount' = announceCount + 1]_vars

\* a transition from half-open to closed has completed
C4_Witness ==
    /\ ~isAnimating
    /\ props.defaultSnapPoint = "half-open"
    /\ currentSnapPoint = "closed"
    /\ announceCount = 1
    /\ announcement = "Bottom sheet minimized"

\* C5: every transition that enters Running eventually commits its target,
\* unless the widget is unmounted first.
C5_RunsToCompletion ==
    \A t \in Range(snapPointOrder) :
        (mounted /\ isAnimating /\ \E cb \in rafQueue : cb.targetSnapPoint = t)
            ~> ((~isAnimating /\ currentSnapPoint = t) \/ ~mounted)

\* on a mobile viewport a transition from half-open has committed fully-open
C5_Witness ==
    /\ mounted
    /\ ~isAnimating
    /\ announceCount = 1
    /\ props.defaultSnapPoint = "half-open"
    /\ currentSnapPoint = "fully-open"
    /\ viewportWidth = 375
    /\ announcement = "Bottom sheet fully open"

\* C6: after an unmount no frame callback is pending, and nothing of the
\* widget's state changes any more.
C6_UnmountCancels ==
    /\ [](~mounted => rafQueue = {})
    /\ [][~mounted =>
            UNCHANGED <<animationProgress, currentSnapPoint, isAnimating,
                        announcement, announceCount, velocityRef, animationRef>>]_vars

\* the widget was unmounted while a transition was Running
C6_Witness == ~mounted /\ isAnimating /\ animationProgress > 0

\* C7: a pointer-down received while a transition is Running opens no session
\* and leaves the positions and the velocity window unchanged.
C7_StartRejectedWhileRunning ==
    [][(isAnimating /\ lastEvent' = "touchStart") => UNCHANGED dragVars]_vars

\* a pointer-down was received while a transition was Running
C7_Witness == isAnimating /\ lastEvent = "touchStart" /\ ~isDragging

\* C8: after a pointer-up the session is no longer active, whatever the
\* animator's state.
C8_EndClosesSession == (lastEvent = "touchEnd") => ~isDragging

\* onClose was called in this step (or the call of a missing onClose raised)
CloseSignalled ==
    \/ closeCalls' = closeCalls + 1
    \/ ~props.onClose /\ threw'

\* C9: at gesture end with an open session: the selector's target closed and the
\* current snap point closed signals request-close and starts no transition;
\* otherwise a target other than the current snap point is requested as a
\* transition; otherwise nothing is signalled and no transition starts.
C9_GestureEndOutcome ==
    [][(isDragging /\ lastEvent' = "touchEnd") =>
         LET target == determineTargetSnapPoint(getCurrentHeight, dragVelocity)
         IN  IF target = "closed" /\ currentSnapPoint = "closed"
             THEN CloseSignalled /\ UNCHANGED <<isAnimating, rafQueue>>
             ELSE IF target # currentSnapPoint
                  THEN isAnimating' /\ UNCHANGED closeVars
                  ELSE UNCHANGED <<isAnimating, rafQueue, closeVars>>]_vars

\* C10: for a widget whose default snap point belongs to its snap-point
\* sequence, the current snap point and the target of every running transition
\* belong to that sequence.
C10_SnapPointsInSequence ==
    props.defaultSnapPoint \in Range(props.snapPoints) =>
        /\ currentSnapPoint \in Range(props.snapPoints)
        /\ \A cb \in rafQueue : cb.targetSnapPoint \in Range(props.snapPoints)

\* the selector has returned
Selected == call.op = "determineTargetSnapPoint" /\ call.result # "pending"

\* the extent fraction of a height, the velocity threshold and the position
\* thresholds of the device class, as the specification states them
FractionOf(h) == IF h.unit = "%" THEN h.value \div 100 ELSE h.value \div viewportHeight
VelocityThresholdOf(width) == IF width < 768 THEN 3000 ELSE 5000
PositionThresholdsOf(width) ==
    IF width < 768 THEN <<1000, 3000, 7000>> ELSE <<1000, 3500, 7500>>

\* C11: the selector is total and its result is a member of the widget's
\* snap-point sequence, for every current snap point of the sequence, every
\* extent fraction in [0,1], every velocity and every device class.
C11_SelectorTotal ==
    Selected => call.result \in Range(props.snapPoints)

\* C12: when |velocity| exceeds the device threshold (0.3 mobile, 0.5 otherwise)
\* the selector returns the snap point one index after the current one for a
\* negative velocity and one index before it for a positive velocity, clamped at
\* the ends of the sequence, whatever the extent fraction.
C12_VelocityDominant ==
    (Selected /\ Abs(call.velocity) > VelocityThresholdOf(viewportWidth)) =>
        LET index == IndexOf(snapPointOrder, currentSnapPoint)
            moved == IF call.velocity < 0 THEN index + 1 ELSE index - 1
            clamped == IF moved < 0 THEN 0
                       ELSE IF moved > Len(snapPointOrder) - 1 THEN Len(snapPointOrder) - 1
                       ELSE moved
        IN  call.result = At(snapPointOrder, clamped)

\* velocity -0.6 on a desktop from closed, at an extent the position rule would
\* map to closed: the selector returned half-open
C12_Witness ==
    /\ Selected
    /\ viewportWidth = 1024
    /\ currentSnapPoint = "closed"
    /\ call.velocity = -6000
    /\ call.currentHeight = Length(5, "%")
    /\ call.result = "half-open"

\* C13: when |velocity| does not exceed the device threshold the selector
\* returns the snap point at the index of the first of the thresholds
\* [0.1, 0.3, 0.7] (mobile) or [0.1, 0.35, 0.75] (otherwise) that the extent
\* fraction does not exceed, and the last snap point if it exceeds them all.
C13_PositionDominant ==
    (Selected /\ Abs(call.velocity) <= VelocityThresholdOf(viewportWidth)) =>
        LET fraction == FractionOf(call.currentHeight)
            thresholds == PositionThresholdsOf(viewportWidth)
        IN  call.result = IF fraction <= thresholds[1] THEN snapPointOrder[1]
                          ELSE IF fraction <= thresholds[2] THEN snapPointOrder[2]
                          ELSE IF fraction <= thresholds[3] THEN snapPointOrder[3]
                          ELSE snapPointOrder[Len(snapPointOrder)]

\* fraction 0.2 at velocity 0 on a desktop: the selector returned half-open
C13_Witness ==
    /\ Selected
    /\ viewportWidth = 1024
    /\ call.velocity = 0
    /\ call.currentHeight = Length(20, "%")
    /\ call.result = "half-open"

\* the estimator has observed samples since the last reset
Observed == call.op = "calculateVelocity" /\ call.observed # <<>>

\* the last (at most) 5 of the samples observed since the last reset
LastFive(samples) ==
    SubSeq(samples, IF Len(samples) > 5 THEN Len(samples) - 4 ELSE 1, Len(samples))

\* the timestamps of the samples are strictly increasing
StrictlyIncreasing(samples) ==
    \A i \in 1..(Len(samples) - 1) : samples[i].time < samples[i + 1].time

\* C14: the velocity sample window never holds more than 5 samples, and it
\* holds the most recent samples observed since the last reset, in arrival
\* order: the sixth sample evicts the oldest.
C14_WindowBounded ==
    /\ Len(velocityRef) <= 5
    /\ Observed => velocityRef = LastFive(call.observed)

\* a sixth sample was observed and the first one, at another position than
\* the second, was evicted
C14_Witness ==
    /\ Observed
    /\ Len(call.observed) = 6
    /\ Len(velocityRef) = 5
    /\ call.observed[1].y # call.observed[2].y
    /\ velocityRef[1] = call.observed[2]

\* C15: for at least 2 samples with strictly increasing timestamps the value
\* returned is (newest.position - oldest.position) / (newest.time -
\* oldest.time), oldest and newest being the first and last of the last (at
\* most) 5 samples observed since the last reset.
C15_VelocityValue ==
    (Observed /\ Len(call.observed) >= 2 /\ StrictlyIncreasing(call.observed)) =>
        LET recent == LastFive(call.observed)
            oldest == recent[1]
            newest == recent[Len(recent)]
        IN  call.result = ((newest.y - oldest.y) * Scale) \div (newest.time - oldest.time)

\* six samples a frame apart, the first one evicted: the value is the distance
\* from the second to the sixth over 64 ms, and not zero
C15_Witness ==
    /\ Observed
    /\ Len(call.observed) = 6
    /\ StrictlyIncreasing(call.observed)
    /\ call.observed[1].y # call.observed[2].y
    /\ call.observed[2].y # call.observed[6].y
    /\ call.observed[5].y = call.observed[6].y
    /\ call.result # 0

\* C16: the value returned is exactly 0 when the window holds a single sample
\* and when the time elapsed from the oldest to the newest sample of the window
\* is zero or negative.
C16_ZeroVelocity ==
    (Observed /\ ( \/ Len(velocityRef) = 1
                   \/ velocityRef[Len(velocityRef)].time - velocityRef[1].time <= 0 )) =>
        call.result = 0

\* the newest sample of the window is older than its oldest one and at another
\* position, and the value returned is 0
C16_Witness ==
    /\ Observed
    /\ Len(velocityRef) >= 2
    /\ velocityRef[Len(velocityRef)].time < velocityRef[1].time
    /\ velocityRef[Len(velocityRef)].y # velocityRef[1].y
    /\ call.result = 0

\* C17: the velocity sample window is scoped to one gesture session: whenever
\* no session is open the window is empty, also after a gesture that ended
\* without starting a transition.
C17_WindowScopedToSession == ~isDragging => velocityRef = <<>>

\* the extent between the from and the target snap point of the transition in
\* flight at the current progress, taken from the table of the current device
\* class
LiveExtent ==
    LET cb == CHOOSE c \in rafQueue : TRUE
        from == snapPointConfig[currentSnapPoint].height
        to == snapPointConfig[cb.targetSnapPoint].height
    IN  IF from.unit = to.unit
        THEN [value |-> from.value + FMul(to.value - from.value, animationProgress),
              unit |-> to.unit]
        ELSE to

\* C18: a resize that arrives while a transition is Running leaves its
\* progress and its frame loop alone, and from the next frame on the displayed
\* extent is computed from the from and target extents of the table of the
\* latest device class.
C18_ResizeWhileRunning ==
    /\ [][(isAnimating /\ \E vp \in ResizeViewports : handleResize(vp)) =>
            UNCHANGED <<isAnimating, animationProgress, rafQueue, currentSnapPoint>>]_vars
    /\ [][(Frame /\ isAnimating' /\ rafQueue' # {}) =>
            getCurrentHeight' = LiveExtent']_vars

\* C19: after every resize or orientation event the device class is the one
\* of the latest viewport width: mobile iff width < 768, tablet iff
\* 768 <= width < 1024, desktop otherwise; never mobile and tablet at once.
C19_DeviceClass ==
    /\ isMobile <=> viewportWidth < 768
    /\ isTablet <=> (viewportWidth >= 768 /\ viewportWidth < 1024)
    /\ ~(isMobile /\ isTablet)

\* a transition requested on a mobile viewport (500 ms) is in flight and the
\* viewport has since been resized to the first tablet width
C19_Witness ==
    /\ isAnimating
    /\ \E cb \in rafQueue : cb.duration = 500
    /\ viewportWidth = 768
    /\ isTablet
    /\ ~isMobile

\* the manual controls and the snap-point buttons are in the rendered output
ManualControlsShown == isOpen /\ showControls /\ currentSnapPoint # "closed"
SnapButtonsShown == isOpen /\ currentConfig.showSnapButtons

\* C20: whenever the widget is open on a mobile viewport neither the manual
\* controls nor the snap-point buttons are shown, at any snap point; on the
\* other device classes the manual controls are shown when the snap point is
\* not closed.
C20_ControlsByDevice ==
    /\ (isOpen /\ isMobile) => (~ManualControlsShown /\ ~SnapButtonsShown)
    /\ (isOpen /\ ~isMobile /\ currentSnapPoint # "closed") => ManualControlsShown

\* the sheet was brought to fully-open on a desktop (target extent 90%) and
\* the viewport then became a mobile one: no controls are stored as shown
C20_Witness ==
    /\ isOpen
    /\ isMobile
    /\ ~isAnimating
    /\ currentSnapPoint = "fully-open"
    /\ targetHeight = Length(90, "%")
    /\ ~showControls

\* props.onClose was invoked in this step: it ran, or the call of a missing
\* callback raised
CloseInvoked ==
    \/ closeCalls' = closeCalls + 1
    \/ ~threw /\ threw'

\* C21: with closeOnEscape enabled and the widget open, an Escape command
\* invokes the close callback.
C21_EscapeCloses ==
    [][(props.closeOnEscape /\ isOpen /\ handleKeyDown("Escape")) => CloseInvoked]_vars

\* a transition to snap point sp was accepted in this step
TransitionStarted(sp) ==
    /\ ~isAnimating /\ isAnimating'
    /\ startedCount' = startedCount + 1
    /\ animationProgress' = 0
    /\ startHeight' = snapPointConfig[currentSnapPoint].height
    /\ targetHeight' = snapPointConfig[sp].height
    /\ \E cb \in rafQueue' \ rafQueue : cb.targetSnapPoint = sp

C24_MissingOnCloseIsBenign ==
    ~props.onClose => ~threw

\* C25: unmounting the widget calls cancelAnimationFrame, including when no
\* transition was ever started on the instance.
C25_UnmountCallsCancel ==
    ~mounted => cancelCalls > 0

\* C26: the step commands take 'one step up/down' in the caller-supplied
\* sequence: a transition started by ArrowUp targets the snap point after the
\* current one in props.snapPoints, one started by ArrowDown the snap point
\* before it.
C26_SuppliedSequence ==
    [][LET i == IndexOf(props.snapPoints, currentSnapPoint)
       IN  /\ (handleKeyDown("ArrowUp") /\ startedCount' # startedCount) =>
                 \E cb \in rafQueue' \ rafQueue :
                     IndexOf(props.snapPoints, cb.targetSnapPoint) = i + 1
           /\ (handleKeyDown("ArrowDown") /\ startedCount' # startedCount) =>
                 /\ i > 0
                 /\ \E cb \in rafQueue' \ rafQueue :
                        IndexOf(props.snapPoints, cb.targetSnapPoint) = i - 1]_vars

\* a call of springEase has returned
Eased == call.op = "springEase" /\ call.returned

InvolvesClosed ==
    \/ currentSnapPoint = "closed"
    \/ \E cb \in rafQueue : cb.targetSnapPoint = "closed"

\* C28: the displayed extent is the current snap point's extent when Idle;
\* start + (target - start) * progress in their unit when Running with start
\* and target extents of the same unit; exactly the target extent when Running
\* with one extent in px and the other in %.  A transition into or out of
\* closed is displayed at its target extent for its whole duration.
C28_DisplayedExtent ==
    /\ ~isAnimating => getCurrentHeight = snapPointConfig[currentSnapPoint].height
    /\ (isAnimating /\ startHeight.unit = targetHeight.unit) =>
          /\ getCurrentHeight.unit = startHeight.unit
          /\ getCurrentHeight.value =
                startHeight.value
                + ((targetHeight.value - startHeight.value) * animationProgress) \div Scale
    /\ (isAnimating /\ startHeight.unit # targetHeight.unit) =>
          getCurrentHeight = targetHeight
    /\ (isAnimating /\ InvolvesClosed) => getCurrentHeight = targetHeight

\* a transition between closed (px) and an open snap point (%), part of the
\* way through
C28_Witness ==
    /\ isAnimating
    /\ animationProgress > 0
    /\ startHeight.unit = "px" /\ targetHeight.unit = "%"
    /\ getCurrentHeight = targetHeight
    /\ getCurrentHeight.value # startHeight.value

\* C29: a gesture that ends at the closed snap point with a downward velocity
\* above the threshold is clamped to closed by the selector and does not
\* signal request-close.
C29_FastReleaseAtClosed ==
    [][(/\ handleTouchEnd
        /\ isDragging /\ ~isAnimating
        /\ currentSnapPoint = "closed"
        /\ dragVelocity > VelocityThresholdOf(viewportWidth))
       => (/\ determineTargetSnapPoint(getCurrentHeight, dragVelocity) = "closed"
           /\ ~CloseInvoked)]_vars

\* C30: a pointer-move received when no gesture session is open, or while a
\* transition is Running, leaves the current pointer position, the drag
\* velocity and the velocity sample window unchanged.
C30_MoveRejected ==
    [][((\E y \in PointerYs : handleTouchMove(y)) /\ (~isDragging \/ isAnimating))
       => UNCHANGED <<currentY, dragVelocity, velocityRef>>]_vars

\* a pointer-move arrived while a transition was Running and no session was
\* open, and nothing was recorded
C30_Witness ==
    /\ lastEvent = "touchMove"
    /\ isAnimating
    /\ ~isDragging
    /\ velocityRef = <<>>
    /\ currentY = 0

\* C31: the extent passed to the selector at gesture end is the resting
\* extent of the current snap point, however far the pointer was dragged; a
\* release with a velocity not above the threshold from half-open or from
\* fully-open therefore selects fully-open on every device class, and at
\* half-open it starts a transition to fully-open, also when the pointer
\* never moved.
C31_RestingExtentSelected ==
    [][(handleTouchEnd /\ isDragging /\ ~isAnimating) =>
          /\ getCurrentHeight = snapPointConfig[currentSnapPoint].height
          /\ (/\ Abs(dragVelocity) <= VelocityThresholdOf(viewportWidth)
              /\ currentSnapPoint \in {"half-open", "fully-open"}) =>
                /\ determineTargetSnapPoint(getCurrentHeight, dragVelocity) = "fully-open"
                /\ IF currentSnapPoint = "half-open"
                   THEN TransitionStarted("fully-open")
                   ELSE UNCHANGED animVars]_vars

\* a session at half-open in which the pointer was dragged downward, slower
\* than the threshold, and whose release started a transition to fully-open
C31_Witness ==
    /\ lastEvent = "touchEnd"
    /\ currentSnapPoint = "half-open"
    /\ isAnimating
    /\ \E cb \in rafQueue : cb.targetSnapPoint = "fully-open"
    /\ currentY > startY
    /\ dragVelocity > 0

\* C32: onClose is never invoked while a transition is Running: a command or
\* gesture that arrives during a running transition leaves it uninvoked.
C32_NoCloseWhileRunning ==
    [][isAnimating => closeCalls' = closeCalls]_vars

\* C33: while a transition is Running the current snap point stays the one
\* the transition started from: it changes only in the commit step of the
\* final frame, to the target of the transition, and no gesture, command,
\* resize or intermediate frame changes it.
C33_SnapPointChangesAtCommit ==
    [][currentSnapPoint' # currentSnapPoint =>
          /\ isAnimating /\ ~isAnimating'
          /\ \E cb \in rafQueue \ rafQueue' :
                /\ cb.targetSnapPoint = currentSnapPoint'
                /\ performanceNow - cb.startTime >= cb.duration]_vars

\* a transition part of the way through, after an intermediate frame and a
\* command that arrived during it, with the snap point it started from
C33_Witness ==
    /\ isAnimating
    /\ animationProgress > 0
    /\ lastEvent = "command"
    /\ \E cb \in rafQueue : cb.targetSnapPoint # currentSnapPoint
    /\ currentSnapPoint = props.defaultSnapPoint
    /\ startedCount = 1

\* C34: a frame callback is pending if and only if a transition is Running:
\* none is scheduled while the animator is Idle, exactly one while it is
\* Running, and none remains after the commit.  (After an unmount the
\* callback has been withdrawn and the widget no longer runs.)
C34_FramePendingIffRunning ==
    /\ Cardinality(rafQueue) <= 1
    /\ rafQueue # {} => isAnimating
    /\ (mounted /\ isAnimating) => rafQueue # {}

\* a Running transition after an intermediate frame: the one callback pending
\* is the one animate requested, whose handle animationRef holds
C34_Witness ==
    /\ mounted
    /\ isAnimating
    /\ animationProgress > 0
    /\ Cardinality(rafQueue) = 1
    /\ \E cb \in rafQueue : cb.id = animationRef

=============================================================================
